---- MODULE Spec2Model ----
(***************************************************************************)
(* The AI-NGFW gateway: the /fw inspection-and-forwarding pipeline of      *)
(* src/gateway/index.js (plain gateway with per-source connection state)   *)
(* and of src/unnamed/part_002 (TLS gateway with transport heuristics).    *)
(*                                                                         *)
(* Risks are JavaScript numbers in the source; here they are integers in  *)
(* hundredths (0.95 is 95).  A value read from the scorer's response body  *)
(* is a JavaScript value: a record [t, nan, v] with its type, whether      *)
(* ToNumber of it is NaN, and its numeric value in hundredths otherwise.   *)
(* Paths are sequences of characters, so that startsWith is a real prefix  *)
(* test.                                                                   *)
(***************************************************************************)
EXTENDS Integers, Sequences, FiniteSets, TLC

VARIABLES
    variant,          \* which gateway runs: "gateway" (index.js) or "tls" (part_002)
    now,              \* Date.now(), in milliseconds
    connectionState,  \* gateway/index.js: Map ip -> {reqCount, lastReq, riskBoost}
    auditLogs,        \* the auditLogs array
    reqs,             \* the /fw requests in arrival order, each with its handler's locals
    backendCalls,     \* the outbound backend calls made so far (request indices)
    adminRes          \* the last response of a health, listing, export or connections endpoint

vars == <<variant, now, connectionState, auditLogs, reqs, backendCalls, adminRes>>

-----------------------------------------------------------------------------
(* Bounds of the model *)

MaxRequests == 2
MaxConc == 2
MaxRate == 22
MaxTicks == 3

-----------------------------------------------------------------------------
(* Program constants *)

MAX_REQS_PER_MIN == 100
WINDOW_MS == 60000
BLOCK_THRESHOLD == 95
HIGH_THRESHOLD == 70
MEDIUM_THRESHOLD == 40

\* The clock advances in steps of half a window.
TickStep == WINDOW_MS \div 2

-----------------------------------------------------------------------------
(* Strings as character sequences *)

P_info     == <<"/","i","n","f","o">>
P_profile  == <<"/","p","r","o","f","i","l","e">>
P_users    == <<"/","u","s","e","r","s">>
P_admin    == <<"/","a","d","m","i","n">>
P_adminSecret == <<"/","a","d","m","i","n","/","s","e","c","r","e","t">>
P_adminStar == <<"/","a","d","m","i","n","/","*">>
P_honeypot == <<"/","h","o","n","e","y","p","o","t">>
P_honeypotDb == <<"/","h","o","n","e","y","p","o","t","/","d","b","-","e","x","p","o","r","t">>
P_star     == <<"*">>

\* String.prototype.startsWith
StartsWith(s, p) == Len(p) <= Len(s) /\ SubSeq(s, 1, Len(p)) = p

\* d.replace("*", ""): the first "*" removed
ReplaceStar(d) ==
    IF \E i \in 1..Len(d) : d[i] = "*"
    THEN LET k == CHOOSE i \in 1..Len(d) : d[i] = "*" /\ \A j \in 1..(i-1) : d[j] # "*"
         IN  SubSeq(d, 1, k-1) \o SubSeq(d, k+1, Len(d))
    ELSE d

\* Array.prototype.includes
Includes(arr, x) == \E i \in 1..Len(arr) : arr[i] = x

-----------------------------------------------------------------------------
(* JavaScript values and numbers *)

JSNum(v)    == [t |-> "number", nan |-> FALSE, v |-> v]
JSNaN       == [t |-> "number", nan |-> TRUE, v |-> 0]
JSUndefined == [t |-> "undefined", nan |-> TRUE, v |-> 0]
\* a string whose ToNumber is v (such as "0.99")
JSNumStr(v) == [t |-> "string", nan |-> FALSE, v |-> v]
\* a string whose ToNumber is NaN (such as "high")
JSTextStr   == [t |-> "string", nan |-> TRUE, v |-> 0]

\* null, as JSON carries it
JSNull      == [t |-> "null", nan |-> TRUE, v |-> 0]

\* JSON.stringify of a value inside a body sent by res.json: NaN becomes null
JsonOf(x) == IF x.t = "number" /\ x.nan THEN JSNull ELSE x

\* ToBoolean: undefined, 0 and NaN are falsy; the strings above are non-empty
Truthy(x) ==
    CASE x.t = "undefined" -> FALSE
      [] x.t = "number"    -> ~x.nan /\ x.v # 0
      [] OTHER             -> TRUE

\* x || d
OrElse(x, d) == IF Truthy(x) THEN x ELSE d

\* a >= b and a < b on numbers: both are false when either side is NaN
GE(a, b) == ~a.nan /\ a.v >= b
LT(a, b) == ~a.nan /\ a.v < b

\* Math.max(...xs): NaN if any argument converts to NaN
MathMax(xs) ==
    IF \E i \in 1..Len(xs) : xs[i].nan THEN JSNaN
    ELSE JSNum(CHOOSE m \in {xs[i].v : i \in 1..Len(xs)} :
                 \A i \in 1..Len(xs) : xs[i].v <= m)

-----------------------------------------------------------------------------
(* The RBAC table and check *)

RBAC ==
    [ guest |-> [allow |-> <<P_info>>,
                 deny  |-> <<P_admin, P_adminSecret, P_adminStar>>],
      user  |-> [allow |-> <<P_info, P_profile>>,
                 deny  |-> <<P_admin, P_adminStar>>],
      admin |-> [allow |-> <<P_star>>,
                 deny  |-> <<>>] ]

\* RBAC[role] || RBAC["guest"]
RulesFor(role) == IF role \in DOMAIN RBAC THEN RBAC[role] ELSE RBAC["guest"]

\* a verdict that runs the allow loop before the deny loop
TableVerdict_allowFirst(rules, pathReq) ==
    IF Includes(rules.allow, P_star) THEN TRUE
    ELSE IF \E i \in 1..Len(rules.allow) : StartsWith(pathReq, ReplaceStar(rules.allow[i]))
         THEN TRUE
    ELSE FALSE

\* the wildcard test, the deny loop, the allow loop, then the default deny
TableVerdict(rules, pathReq) ==
    IF Includes(rules.allow, P_star) THEN TRUE
    ELSE IF \E i \in 1..Len(rules.deny) : StartsWith(pathReq, ReplaceStar(rules.deny[i]))
         THEN FALSE
    ELSE IF \E i \in 1..Len(rules.allow) : StartsWith(pathReq, ReplaceStar(rules.allow[i]))
         THEN TRUE
    ELSE FALSE

\* a check whose wildcard test passes for any role that has an allow list
checkRBAC_anyAllowList(role, pathReq) ==
    IF StartsWith(pathReq, P_honeypot) THEN TRUE
    ELSE IF Len(RulesFor(role).allow) > 0 THEN TRUE
    ELSE TableVerdict(RulesFor(role), pathReq)

\* src/gateway/index.js: honeypot paths pass RBAC
checkRBAC(role, pathReq) ==
    IF StartsWith(pathReq, P_honeypot) THEN TRUE
    ELSE TableVerdict(RulesFor(role), pathReq)

\* a check that lets honeypot paths through, as index.js does
checkRBAC_TLS_honeypotAllowed(role, pathReq) == checkRBAC(role, pathReq)

\* src/unnamed/part_002: honeypot paths are denied by RBAC
checkRBAC_TLS(role, pathReq) ==
    IF StartsWith(pathReq, P_honeypot) THEN FALSE
    ELSE TableVerdict(RulesFor(role), pathReq)

-----------------------------------------------------------------------------
(* Labels *)

\* a labelling that calls high_risk only what the block threshold stops
LabelOf_highAtBlock(risk) ==
    IF GE(risk, BLOCK_THRESHOLD) THEN "high_risk"
    ELSE IF GE(risk, MEDIUM_THRESHOLD) THEN "medium_risk"
    ELSE "normal"

\* risk >= 0.7 ? "high_risk" : risk >= 0.4 ? "medium_risk" : "normal"
LabelOf(risk) ==
    IF GE(risk, HIGH_THRESHOLD) THEN "high_risk"
    ELSE IF GE(risk, MEDIUM_THRESHOLD) THEN "medium_risk"
    ELSE "normal"

-----------------------------------------------------------------------------
(* The rule risk engine *)

\* context rules without the guest-on-admin rule
ContextRules_noGuestRule(ctx) ==
    LET r1 == IF ctx.userId = "anonymous" THEN <<20, <<"no_user_id">>>> ELSE <<0, <<>>>>
        r2 == IF StartsWith(ctx.path, P_admin) THEN <<50, <<"admin_path">>>> ELSE <<0, <<>>>>
        r4 == IF StartsWith(ctx.path, P_honeypot) THEN <<80, <<"honeypot_path">>>> ELSE <<0, <<>>>>
    IN  <<r1[1] + r2[1] + r4[1], r1[2] \o r2[2] \o r4[2]>>

\* the four context rules shared by both gateways: <<risk, reasons>>
ContextRules(ctx) ==
    LET r1 == IF ctx.userId = "anonymous" THEN <<20, <<"no_user_id">>>> ELSE <<0, <<>>>>
        r2 == IF StartsWith(ctx.path, P_admin) THEN <<50, <<"admin_path">>>> ELSE <<0, <<>>>>
        r3 == IF StartsWith(ctx.path, P_admin) /\ ctx.role = "guest"
              THEN <<30, <<"guest_on_admin_path">>>> ELSE <<0, <<>>>>
        r4 == IF StartsWith(ctx.path, P_honeypot) THEN <<80, <<"honeypot_path">>>> ELSE <<0, <<>>>>
    IN  <<r1[1] + r2[1] + r3[1] + r4[1], r1[2] \o r2[2] \o r3[2] \o r4[2]>>

\* an engine without the rate rule
checkRiskRule_noRateRule(ctx) ==
    LET c == ContextRules(ctx)
    IN  [risk |-> c[1], label |-> LabelOf(JSNum(c[1])), reasons |-> c[2]]

\* src/gateway/index.js: the context rules and the rate rule
checkRiskRule(ctx) ==
    LET c == ContextRules(ctx)
        r5 == IF ctx.reqRate > MAX_REQS_PER_MIN
              THEN <<40, <<"rate_limit_exceeded">>>> ELSE <<0, <<>>>>
        risk == c[1] + r5[1]
    IN  [risk |-> risk, label |-> LabelOf(JSNum(risk)), reasons |-> c[2] \o r5[2]]

\* src/unnamed/part_002: the context rules only
checkRiskRule_TLS(ctx) ==
    LET c == ContextRules(ctx)
    IN  [risk |-> c[1], label |-> LabelOf(JSNum(c[1])), reasons |-> c[2]]

-----------------------------------------------------------------------------
(* Transport heuristics of the TLS gateway *)

\* name.includes('RC4') and userAgent.includes('curl') on the names the model uses
IncludesRC4(cipher) == cipher \in {"RC4-SHA", "ECDHE-RSA-RC4-SHA"}
IncludesCurl(ua) == ua \in {"curl/8.4.0"}

\* src/unnamed/part_002: the TLS DPI rules, on the request and the built context
tlsRules(req, ctx) ==
    LET t1 == IF req.proto # "https" THEN <<30, <<"downgrade_attempt">>>> ELSE <<0, <<>>>>
        t2 == IF IncludesRC4(req.cipher) THEN <<60, <<"weak_cipher">>>> ELSE <<0, <<>>>>
        t3 == IF req.ua # "" /\ IncludesCurl(req.ua) /\ ctx.role = "guest"
              THEN <<40, <<"suspicious_ua">>>> ELSE <<0, <<>>>>
    IN  [risk |-> t1[1] + t2[1] + t3[1], reasons |-> t1[2] \o t2[2] \o t3[2]]

-----------------------------------------------------------------------------
(* The ML delegate.  An outcome of the scorer call is                       *)
(*   [kind |-> "error"]            the call throws (refused, reset), or     *)
(*   [kind |-> "response", status, dataType, ml_risk, ml_label]             *)
(* where dataType is "object" (a JSON object with the two fields, each      *)
(* possibly absent), "text" (a body axios could not parse) or "null".       *)
(* A label is a string, "" when the field is absent.                        *)

MLDefault == [ml_risk |-> JSNum(0), ml_label |-> "normal"]

\* what the try block returns for a response
MLFromResponse(o) ==
    LET risk  == IF o.dataType = "object" THEN o.ml_risk ELSE JSUndefined
        label == IF o.dataType = "object" THEN o.ml_label ELSE ""
    IN  [ml_risk  |-> OrElse(risk, JSNum(0)),
         ml_label |-> IF label # "" THEN label ELSE "normal"]

\* a delegate that fails closed
scoreWithML_failClosed(o) ==
    IF o.kind = "error" \/ o.dataType = "null"
    THEN [ml_risk |-> JSNum(100), ml_label |-> "high_risk"]
    ELSE MLFromResponse(o)

\* src/gateway/index.js: validateStatus accepts every status; reading a field of
\* a null body throws inside the try and is caught like a failed call
scoreWithML(o) ==
    IF o.kind = "error" \/ o.dataType = "null" THEN MLDefault
    ELSE MLFromResponse(o)

\* src/unnamed/part_002: the same delegate
scoreWithML_TLS(o) ==
    IF o.kind = "error" \/ o.dataType = "null" THEN MLDefault
    ELSE MLFromResponse(o)

-----------------------------------------------------------------------------
(* Connection state of src/gateway/index.js *)

EmptyMap == [x \in {} |-> x]

\* the entry of ip, created on first sight
getConnectionState(cs, ip, t) ==
    IF ip \in DOMAIN cs THEN cs
    ELSE (ip :> [reqCount |-> 0, lastReq |-> t, riskBoost |-> 0]) @@ cs

\* an update that loses the increment when the source is already known
updateConnectionState_lost(cs, ip, t) ==
    IF ip \in DOMAIN cs THEN [cs EXCEPT ![ip].lastReq = t]
    ELSE (ip :> [reqCount |-> 1, lastReq |-> t, riskBoost |-> 0]) @@ cs

\* reqCount++, lastReq = now, then the reset test against the lastReq just written
updateConnectionState(cs, ip, t) ==
    LET cs0 == getConnectionState(cs, ip, t)
        s1  == [cs0[ip] EXCEPT !.reqCount = @ + 1, !.lastReq = t]
        s2  == IF t - s1.lastReq > WINDOW_MS THEN [s1 EXCEPT !.reqCount = 1] ELSE s1
    IN  [cs0 EXCEPT ![ip] = s2]

-----------------------------------------------------------------------------
(* Contexts.  A request is [ip, method, path, ua, userId, role, proto,      *)
(* cipher]; a header is "" when absent.  The URL carries no query string,   *)
(* so req.path, req.url and req.originalUrl without the mount are the path. *)

HeaderOr(h, d) == IF h # "" THEN h ELSE d

\* src/gateway/index.js: the context read from the connection state just updated
buildContext(req, cs, t) ==
    [ip        |-> req.ip,
     method    |-> req.method,
     path      |-> req.path,
     userAgent |-> HeaderOr(req.ua, "unknown"),
     timestamp |-> t,
     userId    |-> HeaderOr(req.userId, "anonymous"),
     role      |-> HeaderOr(req.role, "guest"),
     reqRate   |-> cs[req.ip].reqCount,
     tlsRisk   |-> cs[req.ip].riskBoost]

\* src/unnamed/part_002
buildContext_TLS(req, t) ==
    [ip        |-> req.ip,
     method    |-> req.method,
     path      |-> req.path,
     userAgent |-> HeaderOr(req.ua, "unknown"),
     timestamp |-> t,
     userId    |-> HeaderOr(req.userId, "anonymous"),
     role      |-> HeaderOr(req.role, "guest")]

\* url.replace(/^\/fw/, "")
StripFw(url) ==
    IF StartsWith(url, <<"/","f","w">>) THEN SubSeq(url, 4, Len(url)) ELSE url

-----------------------------------------------------------------------------
(* The decision of the /fw handlers *)

\* src/gateway/index.js: Math.max(ruleDecision.risk, ml.ml_risk)
finalRiskOf(ruleRisk, mlRisk) == MathMax(<<JSNum(ruleRisk), mlRisk>>)

\* src/unnamed/part_002: Math.max(ruleDecision.risk, ml.ml_risk, tlsRisk)
finalRiskOf_TLS(ruleRisk, mlRisk, tlsRisk) ==
    MathMax(<<JSNum(ruleRisk), mlRisk, JSNum(tlsRisk)>>)

\* decision.allow: rbacAllowed && finalRisk < 0.95
allowFlag(rbacAllowed, finalRisk) == rbacAllowed /\ LT(finalRisk, BLOCK_THRESHOLD)

\* a block test that forgets the RBAC verdict
isBlocked_riskOnly(rbacAllowed, finalRisk) == GE(finalRisk, BLOCK_THRESHOLD)

\* the block test of both handlers: !rbacAllowed || finalRisk >= 0.95
isBlocked(rbacAllowed, finalRisk) == ~rbacAllowed \/ GE(finalRisk, BLOCK_THRESHOLD)

\* !rbacAllowed ? "RBAC violation" : "Critical risk"
blockReason(rbacAllowed) == IF ~rbacAllowed THEN "RBAC violation" ELSE "Critical risk"

-----------------------------------------------------------------------------
(* The /fw handler of src/gateway/index.js.  A request record holds the     *)
(* handler's locals; pc is "ml" while the handler awaits the scorer,        *)
(* "backend" while it awaits the backend, "done" once it has responded.     *)
(* The handler runs from one await to the next without interleaving: the    *)
(* await of checkRiskRule resolves in the same turn of the event loop.      *)

FwPrefix == <<"/","f","w">>

\* a handler whose contexts share the source's state object, so that the count
\* read from an earlier context is the source's count of now
FwReceive_sharedState(q) ==
    /\ variant = "gateway"
    /\ LET cs1 == updateConnectionState(connectionState, q.ip, now)
           ctx == buildContext(q, cs1, now)
       IN  /\ connectionState' = cs1
           /\ reqs' = Append(
                  [i \in 1..Len(reqs) |->
                      IF reqs[i].ctx.ip = q.ip
                      THEN [reqs[i] EXCEPT !.ctx.reqRate = cs1[q.ip].reqCount]
                      ELSE reqs[i]],
                  [pc           |-> "ml",
                   ctx          |-> ctx,
                   forwardPath  |-> StripFw(FwPrefix \o q.path),
                   ruleDecision |-> checkRiskRule(ctx)])
    /\ UNCHANGED <<adminRes, variant, now, auditLogs, backendCalls>>

\* lines 137-143: build the context, score by rule, call the scorer
FwReceive(q) ==
    /\ variant = "gateway"
    /\ LET cs1 == updateConnectionState(connectionState, q.ip, now)
           ctx == buildContext(q, cs1, now)
       IN  /\ connectionState' = cs1
           /\ reqs' = Append(reqs,
                  [pc           |-> "ml",
                   ctx          |-> ctx,
                   forwardPath  |-> StripFw(FwPrefix \o q.path),
                   ruleDecision |-> checkRiskRule(ctx)])
    /\ UNCHANGED <<adminRes, variant, now, auditLogs, backendCalls>>

\* lines 143-178: the scorer call returns; combine, log, then block or forward
FwScored(i, o) ==
    /\ variant = "gateway"
    /\ i \in 1..Len(reqs)
    /\ reqs[i].pc = "ml"
    /\ LET r           == reqs[i]
           ml          == scoreWithML(o)
           finalRisk   == finalRiskOf(r.ruleDecision.risk, ml.ml_risk)
           finalLabel  == LabelOf(finalRisk)
           rbacAllowed == checkRBAC(r.ctx.role, r.forwardPath)
           entry       == [time       |-> now,
                           context    |-> r.ctx,
                           decision   |-> [allow |-> allowFlag(rbacAllowed, finalRisk),
                                           label |-> finalLabel,
                                           rbac  |-> rbacAllowed,
                                           risk  |-> finalRisk],
                           targetPath |-> r.forwardPath,
                           ruleRisk   |-> r.ruleDecision.risk,
                           mlRisk     |-> ml.ml_risk,
                           reasons    |-> r.ruleDecision.reasons]
           locals      == [scorer |-> o, ml |-> ml, finalRisk |-> finalRisk,
                           finalLabel |-> finalLabel, rbacAllowed |-> rbacAllowed,
                           entry |-> entry]
       IN  /\ auditLogs' = Append(auditLogs, entry)
           /\ IF isBlocked(rbacAllowed, finalRisk)
              THEN /\ reqs' = [reqs EXCEPT ![i] =
                          [pc  |-> "done",
                           res |-> [status  |-> 403,
                                    error   |-> "Access denied by AI-NGFW",
                                    reason  |-> blockReason(rbacAllowed),
                                    risk    |-> JsonOf(finalRisk),
                                    reasons |-> r.ruleDecision.reasons]]
                          @@ locals @@ r]
                   /\ UNCHANGED backendCalls
              ELSE /\ reqs' = [reqs EXCEPT ![i] = [pc |-> "backend"] @@ locals @@ r]
                   /\ backendCalls' = Append(backendCalls, i)
    /\ UNCHANGED <<adminRes, variant, now, connectionState>>

\* a handler for which a status outside 2xx is a failed call, as axios has it by default
FwBackendResponse_rejectNon2xx(i, status) ==
    /\ variant = "gateway"
    /\ i \in 1..Len(reqs)
    /\ reqs[i].pc = "backend"
    /\ reqs' = [reqs EXCEPT ![i] =
           [pc  |-> "done",
            res |-> IF status \in 200..299
                    THEN [status |-> status, data |-> "upstream"]
                    ELSE [status |-> 500, error |-> "Backend unavailable"]]
           @@ reqs[i]]
    /\ UNCHANGED <<adminRes, variant, now, connectionState, auditLogs, backendCalls>>

\* lines 174-185: the backend answers with an HTTP status, passed through
FwBackendResponse(i, status) ==
    /\ variant = "gateway"
    /\ i \in 1..Len(reqs)
    /\ reqs[i].pc = "backend"
    /\ LET r == reqs[i]
       IN  reqs' = [reqs EXCEPT ![i] =
               [pc  |-> "done",
                res |-> [status  |-> status,
                         data    |-> "upstream",
                         headers |-> [ruleRisk  |-> r.ruleDecision.risk,
                                      mlRisk    |-> r.ml.ml_risk,
                                      finalRisk |-> r.finalRisk,
                                      label     |-> r.finalLabel]]]
               @@ r]
    /\ UNCHANGED <<adminRes, variant, now, connectionState, auditLogs, backendCalls>>

\* a catch block that answers 500 and records nothing
FwBackendError_noRecord(i) ==
    /\ variant = "gateway"
    /\ i \in 1..Len(reqs)
    /\ reqs[i].pc = "backend"
    /\ reqs' = [reqs EXCEPT ![i] =
           [pc  |-> "done",
            res |-> [status |-> 500, error |-> "Backend unavailable"]]
           @@ reqs[i]]
    /\ UNCHANGED <<adminRes, variant, now, connectionState, auditLogs, backendCalls>>

\* lines 186-190: the backend call throws; a copy of the entry is logged with 500
FwBackendError(i) ==
    /\ variant = "gateway"
    /\ i \in 1..Len(reqs)
    /\ reqs[i].pc = "backend"
    /\ LET r == reqs[i]
       IN  /\ auditLogs' = Append(auditLogs,
                  [statusCode |-> 500, error |-> "backend error"] @@ r.entry)
           /\ reqs' = [reqs EXCEPT ![i] =
                  [pc  |-> "done",
                   res |-> [status |-> 500, error |-> "Backend unavailable"]]
                  @@ r]
    /\ UNCHANGED <<adminRes, variant, now, connectionState, backendCalls>>

-----------------------------------------------------------------------------
(* inspectAndForward of src/unnamed/part_002, mounted on /fw *)

\* lines 87-105: build the context, apply the TLS rules, score by rule, call the scorer
InspectReceive(q) ==
    /\ variant = "tls"
    /\ LET ctx == buildContext_TLS(q, now)
       IN  reqs' = Append(reqs,
               [pc           |-> "ml",
                ctx          |-> ctx,
                forwardPath  |-> StripFw(q.path),
                tls          |-> tlsRules(q, ctx),
                ruleDecision |-> checkRiskRule_TLS(ctx)])
    /\ UNCHANGED <<adminRes, variant, now, connectionState, auditLogs, backendCalls>>

\* lines 105-147: the scorer call returns; combine, log, then block or forward
InspectScored(i, o) ==
    /\ variant = "tls"
    /\ i \in 1..Len(reqs)
    /\ reqs[i].pc = "ml"
    /\ LET r           == reqs[i]
           ml          == scoreWithML_TLS(o)
           finalRisk   == finalRiskOf_TLS(r.ruleDecision.risk, ml.ml_risk, r.tls.risk)
           finalLabel  == LabelOf(finalRisk)
           rbacAllowed == checkRBAC_TLS(r.ctx.role, r.forwardPath)
           entry       == [time       |-> now,
                           context    |-> r.ctx,
                           tls        |-> r.tls,
                           decision   |-> [allow |-> allowFlag(rbacAllowed, finalRisk),
                                           label |-> finalLabel,
                                           rbac  |-> rbacAllowed,
                                           risk  |-> finalRisk],
                           targetPath |-> r.forwardPath,
                           ruleRisk   |-> r.ruleDecision.risk,
                           mlRisk     |-> ml.ml_risk,
                           tlsRisk    |-> r.tls.risk,
                           reasons    |-> r.ruleDecision.reasons \o r.tls.reasons]
           locals      == [scorer |-> o, ml |-> ml, finalRisk |-> finalRisk,
                           finalLabel |-> finalLabel, rbacAllowed |-> rbacAllowed,
                           entry |-> entry]
       IN  /\ auditLogs' = Append(auditLogs, entry)
           /\ IF isBlocked(rbacAllowed, finalRisk)
              THEN /\ reqs' = [reqs EXCEPT ![i] =
                          [pc  |-> "done",
                           res |-> [status  |-> 403,
                                    error   |-> "Access denied by AI-NGFW (TLS Inspected)",
                                    reason  |-> blockReason(rbacAllowed),
                                    risk    |-> JsonOf(finalRisk),
                                    tlsRisk |-> r.tls.risk,
                                    reasons |-> entry.reasons]]
                          @@ locals @@ r]
                   /\ UNCHANGED backendCalls
              ELSE /\ reqs' = [reqs EXCEPT ![i] = [pc |-> "backend"] @@ locals @@ r]
                   /\ backendCalls' = Append(backendCalls, i)
    /\ UNCHANGED <<adminRes, variant, now, connectionState>>

\* lines 136-156: the backend answers with an HTTP status, passed through
InspectBackendResponse(i, status) ==
    /\ variant = "tls"
    /\ i \in 1..Len(reqs)
    /\ reqs[i].pc = "backend"
    /\ LET r == reqs[i]
       IN  reqs' = [reqs EXCEPT ![i] =
               [pc  |-> "done",
                res |-> [status  |-> status,
                         data    |-> "upstream",
                         headers |-> [ruleRisk  |-> r.ruleDecision.risk,
                                      mlRisk    |-> r.ml.ml_risk,
                                      tlsRisk   |-> r.tls.risk,
                                      finalRisk |-> r.finalRisk,
                                      label     |-> r.finalLabel]]]
               @@ r]
    /\ UNCHANGED <<adminRes, variant, now, connectionState, auditLogs, backendCalls>>

\* lines 157-161: the backend call throws (failure, or the 10 s timeout)
InspectBackendError(i) ==
    /\ variant = "tls"
    /\ i \in 1..Len(reqs)
    /\ reqs[i].pc = "backend"
    /\ LET r == reqs[i]
       IN  /\ auditLogs' = Append(auditLogs,
                  [statusCode |-> 500, error |-> "backend error"] @@ r.entry)
           /\ reqs' = [reqs EXCEPT ![i] =
                  [pc  |-> "done",
                   res |-> [status |-> 500, error |-> "TLS Backend unavailable"]]
                  @@ r]
    /\ UNCHANGED <<adminRes, variant, now, connectionState, backendCalls>>

-----------------------------------------------------------------------------
(* The administrative endpoints.  None of them writes the audit log or the  *)
(* connection state; each answers with a view of them.                      *)

\* an audit entry as res.json sends it: NaN becomes null
JsonEntry(e) == [e EXCEPT !.decision.risk = JsonOf(@), !.mlRisk = JsonOf(@)]

\* GET /health of either gateway
Health ==
    /\ adminRes' =
          IF variant = "gateway"
          THEN [kind |-> "health", status |-> "ok", time |-> now,
                activeConnections |-> Cardinality(DOMAIN connectionState)]
          ELSE [kind |-> "health", status |-> "ok", time |-> now,
                logCount |-> Len(auditLogs)]
    /\ UNCHANGED <<variant, now, connectionState, auditLogs, reqs, backendCalls>>

\* GET /admin/logs of either gateway
ListLogs ==
    /\ adminRes' = [kind |-> "logs",
                    body |-> [k \in 1..Len(auditLogs) |-> JsonEntry(auditLogs[k])]]
    /\ UNCHANGED <<variant, now, connectionState, auditLogs, reqs, backendCalls>>

\* GET /admin/connections of src/gateway/index.js
Connections ==
    /\ variant = "gateway"
    /\ adminRes' = [kind |-> "connections",
                    body |-> { [ip |-> ip,
                                reqCount |-> connectionState[ip].reqCount,
                                riskBoost |-> connectionState[ip].riskBoost] :
                               ip \in DOMAIN connectionState }]
    /\ UNCHANGED <<variant, now, connectionState, auditLogs, reqs, backendCalls>>

-----------------------------------------------------------------------------
(* The SIEM export of src/unnamed/part_002.  Texts are sequences of         *)
(* characters; CharsOf spells the strings that occur in an export.          *)

CharsOf(s) ==
    CASE s = "timestamp" -> <<"t", "i", "m", "e", "s", "t", "a", "m", "p">>
      [] s = "event_type" -> <<"e", "v", "e", "n", "t", "_", "t", "y", "p", "e">>
      [] s = "source_ip" -> <<"s", "o", "u", "r", "c", "e", "_", "i", "p">>
      [] s = "http_method" -> <<"h", "t", "t", "p", "_", "m", "e", "t", "h", "o", "d">>
      [] s = "url_path" -> <<"u", "r", "l", "_", "p", "a", "t", "h">>
      [] s = "user_id" -> <<"u", "s", "e", "r", "_", "i", "d">>
      [] s = "user_role" -> <<"u", "s", "e", "r", "_", "r", "o", "l", "e">>
      [] s = "action" -> <<"a", "c", "t", "i", "o", "n">>
      [] s = "status_code" -> <<"s", "t", "a", "t", "u", "s", "_", "c", "o", "d", "e">>
      [] s = "risk_score" -> <<"r", "i", "s", "k", "_", "s", "c", "o", "r", "e">>
      [] s = "rule_risk" -> <<"r", "u", "l", "e", "_", "r", "i", "s", "k">>
      [] s = "ml_risk" -> <<"m", "l", "_", "r", "i", "s", "k">>
      [] s = "risk_label" -> <<"r", "i", "s", "k", "_", "l", "a", "b", "e", "l">>
      [] s = "ml_label" -> <<"m", "l", "_", "l", "a", "b", "e", "l">>
      [] s = "gateway_service" -> <<"g", "a", "t", "e", "w", "a", "y", "_", "s", "e", "r", "v", "i", "c", "e">>
      [] s = "protected_service" -> <<"p", "r", "o", "t", "e", "c", "t", "e", "d", "_", "s", "e", "r", "v", "i", "c", "e">>
      [] s = "firewall_decision" -> <<"f", "i", "r", "e", "w", "a", "l", "l", "_", "d", "e", "c", "i", "s", "i", "o", "n">>
      [] s = "10.0.0.1" -> <<"1", "0", ".", "0", ".", "0", ".", "1">>
      [] s = "10.0.0.2" -> <<"1", "0", ".", "0", ".", "0", ".", "2">>
      [] s = "unknown" -> <<"u", "n", "k", "n", "o", "w", "n">>
      [] s = "GET" -> <<"G", "E", "T">>
      [] s = "anonymous" -> <<"a", "n", "o", "n", "y", "m", "o", "u", "s">>
      [] s = "testuser" -> <<"t", "e", "s", "t", "u", "s", "e", "r">>
      [] s = "a,\"b" -> <<"a", ",", "\"", "b">>
      [] s = "guest" -> <<"g", "u", "e", "s", "t">>
      [] s = "user" -> <<"u", "s", "e", "r">>
      [] s = "admin" -> <<"a", "d", "m", "i", "n">>
      [] s = "root" -> <<"r", "o", "o", "t">>
      [] s = "allowed" -> <<"a", "l", "l", "o", "w", "e", "d">>
      [] s = "blocked" -> <<"b", "l", "o", "c", "k", "e", "d">>
      [] s = "normal" -> <<"n", "o", "r", "m", "a", "l">>
      [] s = "medium_risk" -> <<"m", "e", "d", "i", "u", "m", "_", "r", "i", "s", "k">>
      [] s = "high_risk" -> <<"h", "i", "g", "h", "_", "r", "i", "s", "k">>
      [] s = "ai-ngfw-gateway" -> <<"a", "i", "-", "n", "g", "f", "w", "-", "g", "a", "t", "e", "w", "a", "y">>
      [] s = "dummy-backend" -> <<"d", "u", "m", "m", "y", "-", "b", "a", "c", "k", "e", "n", "d">>

Digits == <<"0", "1", "2", "3", "4", "5", "6", "7", "8", "9">>

\* the decimal digits of a natural number
RECURSIVE NatChars(_)
NatChars(n) ==
    IF n < 10 THEN <<Digits[n + 1]>>
    ELSE NatChars(n \div 10) \o <<Digits[(n % 10) + 1]>>

\* String(v) of a number: NaN, or the shortest decimal of a value in hundredths
NumToChars(x) ==
    IF x.nan THEN <<"N", "a", "N">>
    ELSE LET int  == x.v \div 100
             frac == x.v % 100
         IN  IF frac = 0 THEN NatChars(int)
             ELSE IF frac % 10 = 0 THEN NatChars(int) \o <<".", Digits[(frac \div 10) + 1]>>
             ELSE NatChars(int) \o <<".", Digits[(frac \div 10) + 1], Digits[(frac % 10) + 1]>>

TwoDigits(n) == <<Digits[(n \div 10) + 1], Digits[(n % 10) + 1]>>

\* new Date(t).toISOString() for a time t, in milliseconds, within the first hour
\* of the clock
IsoChars(t) ==
    <<"1","9","7","0","-","0","1","-","0","1","T","0","0",":">>
    \o TwoDigits(t \div 60000) \o <<":">> \o TwoDigits((t \div 1000) % 60)
    \o <<".">> \o <<Digits[((t % 1000) \div 100) + 1]>> \o TwoDigits(t % 100) \o <<"Z">>

\* a normaliser whose action is the allow flag alone, whatever the status code
normalizeLogForSIEM_allowFlagOnly(entry) ==
    LET ctx       == entry.context
        dec       == entry.decision
        hasStatus == "statusCode" \in DOMAIN entry
        isAllowed == dec.allow
    IN  [timestamp         |-> entry.time,
         event_type        |-> "firewall_decision",
         source_ip         |-> HeaderOr(ctx.ip, "unknown"),
         http_method       |-> HeaderOr(ctx.method, "GET"),
         url_path          |-> IF ctx.path # <<>> THEN ctx.path
                               ELSE IF entry.targetPath # <<>> THEN entry.targetPath
                               ELSE <<"/">>,
         user_id           |-> HeaderOr(ctx.userId, "anonymous"),
         user_role         |-> HeaderOr(ctx.role, "guest"),
         action            |-> IF isAllowed THEN "allowed" ELSE "blocked",
         status_code       |-> IF hasStatus THEN JSNum(entry.statusCode * 100) ELSE JSNull,
         risk_score        |-> dec.risk,
         rule_risk         |-> JSNull,
         ml_risk           |-> JSNull,
         risk_label        |-> HeaderOr(dec.label, "normal"),
         ml_label          |-> "normal",
         gateway_service   |-> "ai-ngfw-gateway",
         protected_service |-> "dummy-backend",
         reasons           |-> <<>>]

\* one SIEM event of an audit entry; dec.rule_risk, dec.ml_risk, dec.ml_label and
\* dec.reasons are read from the decision, which has no such fields
normalizeLogForSIEM(entry) ==
    LET ctx       == entry.context
        dec       == entry.decision
        hasStatus == "statusCode" \in DOMAIN entry
        isAllowed == IF hasStatus THEN entry.statusCode < 400 ELSE dec.allow
    IN  [timestamp         |-> entry.time,
         event_type        |-> "firewall_decision",
         source_ip         |-> HeaderOr(ctx.ip, "unknown"),
         http_method       |-> HeaderOr(ctx.method, "GET"),
         url_path          |-> IF ctx.path # <<>> THEN ctx.path
                               ELSE IF entry.targetPath # <<>> THEN entry.targetPath
                               ELSE <<"/">>,
         user_id           |-> HeaderOr(ctx.userId, "anonymous"),
         user_role         |-> HeaderOr(ctx.role, "guest"),
         action            |-> IF isAllowed THEN "allowed" ELSE "blocked",
         status_code       |-> IF hasStatus THEN JSNum(entry.statusCode * 100) ELSE JSNull,
         risk_score        |-> dec.risk,
         rule_risk         |-> JSNull,
         ml_risk           |-> JSNull,
         risk_label        |-> HeaderOr(dec.label, "normal"),
         ml_label          |-> "normal",
         gateway_service   |-> "ai-ngfw-gateway",
         protected_service |-> "dummy-backend",
         reasons           |-> <<>>]

\* s.replace(/"/g, '""')
RECURSIVE DoubleQuotes(_)
DoubleQuotes(s) ==
    IF s = <<>> THEN <<>>
    ELSE (IF Head(s) = "\"" THEN <<"\"", "\"">> ELSE <<Head(s)>>) \o DoubleQuotes(Tail(s))

\* an esc that wraps the text in double quotes and leaves its own quotes single
escChars_noDoubling(s) == <<"\"">> \o s \o <<"\"">>

\* esc of a string: the text between double quotes, its own quotes doubled
escChars(s) == <<"\"">> \o DoubleQuotes(s) \o <<"\"">>

\* esc of a number or null: "" for null and undefined, else String(v)
escValue(x) ==
    IF x.t \in {"null", "undefined"} THEN <<"\"", "\"">> ELSE escChars(NumToChars(x))

\* Array.prototype.join
RECURSIVE Join(_, _)
Join(parts, sep) ==
    IF parts = <<>> THEN <<>>
    ELSE IF Len(parts) = 1 THEN parts[1]
    ELSE parts[1] \o sep \o Join(Tail(parts), sep)

CSVHeaders ==
    <<"timestamp", "event_type", "source_ip", "http_method", "url_path", "user_id",
      "user_role", "action", "status_code", "risk_score", "rule_risk", "ml_risk",
      "risk_label", "ml_label", "gateway_service", "protected_service">>

\* the sixteen escaped fields of one event
CSVRow(e) ==
    <<escChars(IsoChars(e.timestamp)),
      escChars(CharsOf(e.event_type)),
      escChars(CharsOf(e.source_ip)),
      escChars(CharsOf(e.http_method)),
      escChars(e.url_path),
      escChars(CharsOf(e.user_id)),
      escChars(CharsOf(e.user_role)),
      escChars(CharsOf(e.action)),
      escValue(e.status_code),
      escValue(e.risk_score),
      escValue(e.rule_risk),
      escValue(e.ml_risk),
      escChars(CharsOf(e.risk_label)),
      escChars(CharsOf(e.ml_label)),
      escChars(CharsOf(e.gateway_service)),
      escChars(CharsOf(e.protected_service))>>

\* the header line, then one line per entry, joined by "\n"
logsToCSV(logs) ==
    LET normalized == [k \in 1..Len(logs) |-> normalizeLogForSIEM(logs[k])]
        headerLine == Join([h \in 1..Len(CSVHeaders) |-> CharsOf(CSVHeaders[h])], <<",">>)
        rows       == [k \in 1..Len(logs) |-> Join(CSVRow(normalized[k]), <<",">>)]
    IN  Join(<<headerLine>> \o rows, <<"\n">>)

\* (req.query.format || "json").toLowerCase()
FormatOf(f) == IF f = "" THEN "json" ELSE IF f = "CSV" THEN "csv" ELSE f

\* an export that empties the log once it has been sent
ExportLogs_rotate(f) ==
    /\ variant = "tls"
    /\ adminRes' = [kind |-> "csv", status |-> 200, body |-> logsToCSV(auditLogs)]
    /\ auditLogs' = <<>>
    /\ UNCHANGED <<variant, now, connectionState, reqs, backendCalls>>

\* GET /admin/logs/export of src/unnamed/part_002: CSV text, or the events as JSON
\* (where a NaN risk score becomes null)
ExportLogs(f) ==
    /\ variant = "tls"
    /\ adminRes' =
          IF FormatOf(f) = "csv"
          THEN [kind |-> "csv", status |-> 200, body |-> logsToCSV(auditLogs)]
          ELSE [kind |-> "json", status |-> 200,
                body |-> [k \in 1..Len(auditLogs) |->
                            [normalizeLogForSIEM(auditLogs[k]) EXCEPT !.risk_score = JsonOf(@)]]]
    /\ UNCHANGED <<variant, now, connectionState, auditLogs, reqs, backendCalls>>

-----------------------------------------------------------------------------
(* Either gateway, by the variant running *)

Receive(q)            == FwReceive(q) \/ InspectReceive(q)
Scored(i, o)          == FwScored(i, o) \/ InspectScored(i, o)
BackendResponse(i, s) == FwBackendResponse(i, s) \/ InspectBackendResponse(i, s)
BackendError(i)       == FwBackendError(i) \/ InspectBackendError(i)

\* the clock advances
Tick ==
    /\ now + TickStep <= MaxTicks * TickStep
    /\ now' = now + TickStep
    /\ UNCHANGED <<adminRes, variant, connectionState, auditLogs, reqs, backendCalls>>

-----------------------------------------------------------------------------
(* The environment: clients, the scorer and the backend *)

Req(ip, userId, role, path, ua, proto, cipher) ==
    [ip |-> ip, method |-> "GET", path |-> path, ua |-> ua,
     userId |-> userId, role |-> role, proto |-> proto, cipher |-> cipher]

Browser == "Mozilla/5.0"
Curl    == "curl/8.4.0"
AES     == "TLS_AES_256_GCM_SHA384"

IPs == {"10.0.0.1", "10.0.0.2"}

\* the requests of the concurrent specification
Requests ==
    { Req(ip, p[1], p[2], p[3], Browser, "https", AES) :
        ip \in IPs,
        p \in { <<"testuser", "guest", P_info>>,
                <<"testuser", "guest", P_adminSecret>>,
                <<"", "", P_honeypotDb>> } }

\* every combination of headers, path and transport of the single-request specification
WideRequests ==
    { Req("10.0.0.1", u, r, p, ua, proto, c) :
        u \in {"", "testuser"},
        r \in {"", "guest", "user", "admin", "root"},
        p \in {P_info, P_profile, P_users, P_adminSecret, P_honeypotDb},
        ua \in {"", Browser, Curl},
        proto \in {"", "https"},
        c \in {AES, "RC4-SHA"} }

\* the request of the rate specification
RateRequests == { Req("10.0.0.1", "testuser", "guest", P_info, Browser, "https", AES) }

\* the requests of the concurrent rate specification
ConcRequests == { Req(ip, "testuser", "guest", P_info, Browser, "https", AES) : ip \in IPs }

ScorerError == [kind |-> "error", status |-> 0, dataType |-> "none",
                ml_risk |-> JSUndefined, ml_label |-> ""]
ScorerResponse(status, dataType, risk, label) ==
    [kind |-> "response", status |-> status, dataType |-> dataType,
     ml_risk |-> risk, ml_label |-> label]
ScorerZero == ScorerResponse(200, "object", JSNum(0), "normal")

ScorerOutcomes == { ScorerError, ScorerZero,
                    ScorerResponse(200, "object", JSNum(99), "anomaly") }

WideScorerOutcomes ==
    { ScorerError, ScorerZero,
      ScorerResponse(200, "null", JSUndefined, ""),
      ScorerResponse(200, "text", JSUndefined, ""),
      ScorerResponse(200, "object", JSUndefined, ""),
      ScorerResponse(200, "object", JSNum(50), "suspicious"),
      ScorerResponse(200, "object", JSNum(94), "anomaly"),
      ScorerResponse(200, "object", JSNum(95), "anomaly"),
      ScorerResponse(200, "object", JSNum(100), "anomaly"),
      ScorerResponse(200, "object", JSNumStr(99), "anomaly"),
      ScorerResponse(200, "object", JSTextStr, "anomaly"),
      ScorerResponse(500, "object", JSNum(100), "anomaly") }

BackendStatuses == {200, 500}
WideBackendStatuses == {200, 404, 500}

\* no administrative endpoint has answered yet
NoResponse == [kind |-> "none"]

-----------------------------------------------------------------------------
(* Specifications *)

Init ==
    /\ variant \in {"gateway", "tls"}
    /\ now = 0
    /\ connectionState = EmptyMap
    /\ auditLogs = <<>>
    /\ reqs = <<>>
    /\ backendCalls = <<>>
    /\ adminRes = NoResponse

\* concurrent requests of a few kinds, both gateways
Next ==
    \/ Len(reqs) < MaxRequests /\ \E q \in Requests : Receive(q)
    \/ \E i \in 1..Len(reqs), o \in ScorerOutcomes : Scored(i, o)
    \/ \E i \in 1..Len(reqs), s \in BackendStatuses : BackendResponse(i, s)
    \/ \E i \in 1..Len(reqs) : BackendError(i)

Spec == Init /\ [][Next]_vars

\* one request of every kind, every scorer and backend outcome, both gateways
NextWide ==
    \/ reqs = <<>> /\ \E q \in WideRequests : Receive(q)
    \/ \E i \in 1..Len(reqs), o \in WideScorerOutcomes : Scored(i, o)
    \/ \E i \in 1..Len(reqs), s \in WideBackendStatuses : BackendResponse(i, s)
    \/ \E i \in 1..Len(reqs) : BackendError(i)

SpecWide == Init /\ [][NextWide]_vars

\* one source sending one request after the other to the plain gateway, as time passes
InitRate == Init /\ variant = "gateway"

AllDone == \A i \in 1..Len(reqs) : reqs[i].pc = "done"

NextRate ==
    \/ Len(reqs) < MaxRate /\ AllDone /\ \E q \in RateRequests : FwReceive(q)
    \/ \E i \in 1..Len(reqs) : FwScored(i, ScorerZero)
    \/ \E i \in 1..Len(reqs) : FwBackendResponse(i, 200)
    \/ AllDone /\ Tick

SpecRate == InitRate /\ [][NextRate]_vars

\* concurrent requests of two sources to the plain gateway, as time passes
NextConc ==
    \/ Len(reqs) < MaxConc /\ \E q \in ConcRequests : FwReceive(q)
    \/ \E i \in 1..Len(reqs) : FwScored(i, ScorerZero)
    \/ \E i \in 1..Len(reqs) : FwBackendResponse(i, 200)
    \/ Tick

SpecConc == InitRate /\ [][NextConc]_vars

\* one request of every kind to the plain gateway, from a source that is new or
\* has sent MAX_REQS_PER_MIN - 1 or MAX_REQS_PER_MIN requests before (requests
\* that have completed and are not tracked any more)
WarmCounts == {MAX_REQS_PER_MIN - 1, MAX_REQS_PER_MIN}

InitWarm ==
    /\ variant = "gateway"
    /\ now = 0
    /\ connectionState \in
          {EmptyMap} \cup
          { ("10.0.0.1" :> [reqCount |-> c, lastReq |-> 0, riskBoost |-> 0]) : c \in WarmCounts }
    /\ auditLogs = <<>>
    /\ reqs = <<>>
    /\ backendCalls = <<>>
    /\ adminRes = NoResponse

SpecWarm == InitWarm /\ [][NextWide]_vars

\* concurrent requests to the plain gateway from sources one of which may have
\* sent MAX_REQS_PER_MIN - 1 or MAX_REQS_PER_MIN requests before
SpecWarmConc == InitWarm /\ [][NextConc]_vars

\* the requests of the administrative specification: one of them carries a user
\* id with a comma and a double quote
AdminRequests ==
    { Req("10.0.0.1", p[1], "guest", p[2], Browser, "https", AES) :
        p \in { <<"a,\"b", P_info>>, <<"", P_adminSecret>> } }

\* the scorer of the administrative specification answers, with a low or a high risk
AdminScorerOutcomes == { ScorerZero, ScorerResponse(200, "object", JSNum(99), "anomaly") }

ExportFormats == {"", "json", "csv", "CSV"}

\* concurrent requests interleaved with the administrative endpoints, both gateways
NextAdmin ==
    \/ Len(reqs) < MaxRequests /\ \E q \in AdminRequests : Receive(q)
    \/ \E i \in 1..Len(reqs), o \in AdminScorerOutcomes : Scored(i, o)
    \/ \E i \in 1..Len(reqs), st \in BackendStatuses : BackendResponse(i, st)
    \/ \E i \in 1..Len(reqs) : BackendError(i)
    \/ Health
    \/ ListLogs
    \/ Connections
    \/ \E f \in ExportFormats : ExportLogs(f)

SpecAdmin == Init /\ [][NextAdmin]_vars

\* the concurrent specification with a backend that answers every call; nothing
\* is assumed of the scorer, and the handlers have no step of their own to take
BackendProgress(i) ==
    (\E s \in BackendStatuses : BackendResponse(i, s)) \/ BackendError(i)

FairSpec ==
    /\ Init /\ [][Next]_vars
    /\ \A i \in 1..MaxRequests : WF_vars(BackendProgress(i))

-----------------------------------------------------------------------------
(* Vocabulary of the properties *)

ReqIds == 1..Len(reqs)

\* the handler of request i has the scorer's answer and has decided
Decided(i) == reqs[i].pc # "ml"
\* the handler of request i has responded
Done(i) == reqs[i].pc = "done"
\* an outbound backend call was made for request i
Forwarded(i) == \E k \in 1..Len(backendCalls) : backendCalls[k] = i
\* request i was answered with the gateway's 403
Blocked403(i) == Done(i) /\ reqs[i].res.status = 403 /\ ~Forwarded(i)

-----------------------------------------------------------------------------
(* C1: after any sequence of /fw requests that have all terminated, the     *)
(* audit log holds exactly one entry per request: its length equals the     *)
(* number of terminated requests.                                           *)
C1_OneEntryPerRequest ==
    AllDone => Len(auditLogs) = Len(reqs)

-----------------------------------------------------------------------------
-----------------------------------------------------------------------------
(* C3: a request with role guest to /admin/secret is denied by RBAC and     *)
(* answered 403 whatever the rule, ML and transport risks are, and is       *)
(* never forwarded to the backend.                                          *)
IsGuestAdminSecret(i) ==
    reqs[i].ctx.role = "guest" /\ reqs[i].forwardPath = P_adminSecret

C3_GuestAdminSecretDenied ==
    \A i \in ReqIds :
        IsGuestAdminSecret(i) =>
            /\ ~Forwarded(i)
            /\ Decided(i) => ~reqs[i].rbacAllowed /\ Blocked403(i)
                             /\ reqs[i].res.reason = "RBAC violation"

\* a guest request to /admin/secret whose scorer call failed and whose final
\* risk stayed below the block threshold was answered 403
C3_Witness ==
    \E i \in ReqIds :
        /\ IsGuestAdminSecret(i)
        /\ Blocked403(i)
        /\ reqs[i].scorer = ScorerError
        /\ LT(reqs[i].finalRisk, BLOCK_THRESHOLD)

-----------------------------------------------------------------------------
(* C4: for every role and every path starting with /honeypot the RBAC       *)
(* check allows; a honeypot request is blocked only when finalRisk >= 0.95, *)
(* and its block reason is never "RBAC violation".                          *)
C4_HoneypotPassesRBAC ==
    \A i \in ReqIds :
        Decided(i) /\ StartsWith(reqs[i].forwardPath, P_honeypot) =>
            /\ reqs[i].rbacAllowed
            /\ Blocked403(i) => /\ GE(reqs[i].finalRisk, BLOCK_THRESHOLD)
                                /\ reqs[i].res.reason # "RBAC violation"

-----------------------------------------------------------------------------
(* C5: the dummy site calls the TLS gateway with x-user-id testuser and     *)
(* x-user-role guest from a browser.  Original statement: its request to    *)
(* /fw/honeypot/db-export is blocked with 403 and does not reach the        *)
(* backend, /fw/admin/secret is blocked with 403, and /fw/info is           *)
(* forwarded.                                                               *)
IsDummySite(i) ==
    /\ variant = "tls"
    /\ reqs[i].ctx.userId = "testuser"
    /\ reqs[i].ctx.role = "guest"
    /\ reqs[i].ctx.userAgent = Browser
    /\ reqs[i].tls.reasons = <<"downgrade_attempt">>

-----------------------------------------------------------------------------
(* The rate tracker the specification describes, replayed over the arrivals *)
(* of a source: <<windowStart, count>> for request i.  A request observed   *)
(* more than a window after the window start gets count 1 and starts a new  *)
(* window; any other request counts one more in the current window.         *)

SameSourceBefore(i) == {j \in 1..(i-1) : reqs[j].ctx.ip = reqs[i].ctx.ip}

SetMax(S) == CHOOSE m \in S : \A x \in S : x <= m

RECURSIVE WindowAt(_)
WindowAt(i) ==
    LET t == reqs[i].ctx.timestamp
    IN  IF SameSourceBefore(i) = {} THEN <<t, 1>>
        ELSE LET w == WindowAt(SetMax(SameSourceBefore(i)))
             IN  IF t > w[1] + WINDOW_MS THEN <<t, 1>> ELSE <<w[1], w[2] + 1>>

-----------------------------------------------------------------------------
(* C6: the rate observation of every request is its count within the       *)
(* current window of its source: the first request observed more than 60 s  *)
(* after the window start gets count 1, and the count never accumulates     *)
(* across windows.                                                          *)
C6_WindowReset ==
    \A i \in ReqIds : reqs[i].ctx.reqRate = WindowAt(i)[2]

-----------------------------------------------------------------------------
(* C7: a request whose count within the current window exceeds the cap of   *)
(* 20 is answered with 429 before any scoring and is never forwarded, and   *)
(* an audit entry with reason rate_limit is recorded for it; a request      *)
(* within the cap is never answered with 429.                               *)
C7_HardRateGate ==
    \A i \in ReqIds :
        IF WindowAt(i)[2] > 20
        THEN /\ Done(i)
             /\ reqs[i].res.status = 429
             /\ ~Forwarded(i)
             /\ \E k \in 1..Len(auditLogs) :
                   /\ auditLogs[k].context = reqs[i].ctx
                   /\ Includes(auditLogs[k].reasons, "rate_limit")
        ELSE Done(i) => reqs[i].res.status # 429

-----------------------------------------------------------------------------
(* C8: no update of a source's counter is lost, whatever the interleaving   *)
(* of the requests in flight: while the requests of a source fall within    *)
(* one window, the k-th request observed from it sees count k and its       *)
(* counter equals the number of requests observed from it; a source never   *)
(* observed has no counter.                                                 *)
FromSource(ip) == {i \in ReqIds : reqs[i].ctx.ip = ip}

WithinOneWindow(S) ==
    \A i, j \in S : reqs[i].ctx.timestamp - reqs[j].ctx.timestamp <= WINDOW_MS

C8_NoLostUpdates ==
    /\ \A ip \in IPs :
          IF FromSource(ip) = {} THEN ip \notin DOMAIN connectionState
          ELSE WithinOneWindow(FromSource(ip)) =>
                  connectionState[ip].reqCount = Cardinality(FromSource(ip))
    /\ \A i \in ReqIds :
          WithinOneWindow(SameSourceBefore(i) \cup {i}) =>
              reqs[i].ctx.reqRate = Cardinality(SameSourceBefore(i)) + 1

\* two requests of one source are in flight at once, one suspended on the
\* backend and one on the scorer, observed at different times of one window
\* with counts 1 and 2; the other source has no counter
C8_Witness ==
    \E i, j \in ReqIds :
        /\ reqs[i].ctx.ip = reqs[j].ctx.ip
        /\ reqs[i].pc = "backend" /\ reqs[j].pc = "ml"
        /\ reqs[i].ctx.reqRate = 1 /\ reqs[j].ctx.reqRate = 2
        /\ reqs[i].ctx.timestamp < reqs[j].ctx.timestamp
        /\ WithinOneWindow({i, j})
        /\ connectionState[reqs[i].ctx.ip].reqCount = 2
        /\ DOMAIN connectionState = {reqs[i].ctx.ip}

-----------------------------------------------------------------------------
(* C9: a failed scorer call (the call throws, or the response body cannot   *)
(* be read) gives the decision that ml_risk = 0 gives: in both cases the    *)
(* request is forwarded exactly when RBAC allows it and the greater of rule *)
(* risk and transport risk is below 0.95, and is answered 403 otherwise;    *)
(* the final risk is that greater risk; a failure alone never blocks.       *)
ScorerFailures ==
    { ScorerError,
      ScorerResponse(200, "null", JSUndefined, ""),
      ScorerResponse(200, "text", JSUndefined, "") }

RiskWithoutML(i) ==
    IF variant = "tls" /\ reqs[i].tls.risk > reqs[i].ruleDecision.risk
    THEN reqs[i].tls.risk
    ELSE reqs[i].ruleDecision.risk

C9_FailOpenEquivalence ==
    \A i \in ReqIds :
        Decided(i) /\ reqs[i].scorer \in ScorerFailures \cup {ScorerZero} =>
            /\ reqs[i].finalRisk = JSNum(RiskWithoutML(i))
            /\ Forwarded(i) <=> (reqs[i].rbacAllowed /\ RiskWithoutML(i) < BLOCK_THRESHOLD)
            /\ ~Forwarded(i) => Blocked403(i)
            /\ reqs[i].entry.decision.allow = Forwarded(i)

\* a request whose scorer call failed was forwarded and answered with the
\* backend's 200
C9_Witness ==
    \E i \in ReqIds :
        /\ Forwarded(i) /\ Done(i)
        /\ reqs[i].scorer = ScorerError
        /\ reqs[i].res.status = 200

-----------------------------------------------------------------------------
(* C10: every /fw request eventually reaches a terminal outcome, with the   *)
(* response sent and an audit entry recorded, even when the scorer never    *)
(* answers, as long as the backend answers.                                 *)
C10_EventuallyTerminal ==
    \A i \in 1..MaxRequests :
        (Len(reqs) >= i) ~>
            (/\ Len(reqs) >= i
             /\ reqs[i].pc = "done"
             /\ \E k \in 1..Len(auditLogs) : auditLogs[k].context = reqs[i].ctx)

-----------------------------------------------------------------------------
(* C11: a scorer response with a status outside 2xx, or whose body has no   *)
(* well-formed numeric ml_risk, is treated as a scorer failure: the ML      *)
(* contribution of the request is risk 0 with label normal, whatever the    *)
(* body carries.                                                            *)
IsWellFormedScore(o) ==
    /\ o.kind = "response"
    /\ o.status \in 200..299
    /\ o.dataType = "object"
    /\ o.ml_risk.t = "number" /\ ~o.ml_risk.nan

C11_MalformedIsFailure ==
    \A i \in ReqIds :
        Decided(i) /\ ~IsWellFormedScore(reqs[i].scorer) => reqs[i].ml = MLDefault

-----------------------------------------------------------------------------
(* C12: for every request the final risk, as used by the block test and as  *)
(* recorded in the audit entry, is the greatest of the rule risk, the ML    *)
(* risk and the transport risk computed for it.                             *)
TransportRisk(i) == IF variant = "tls" THEN reqs[i].tls.risk ELSE reqs[i].ctx.tlsRisk

C12_FinalRiskIsMax ==
    \A i \in ReqIds :
        Decided(i) =>
            /\ ~reqs[i].ml.ml_risk.nan
            /\ reqs[i].finalRisk =
                  JSNum(SetMax({reqs[i].ruleDecision.risk, reqs[i].ml.ml_risk.v,
                                TransportRisk(i)}))
            /\ reqs[i].entry.decision.risk = reqs[i].finalRisk
            /\ Forwarded(i) <=> (reqs[i].rbacAllowed /\ LT(reqs[i].finalRisk, BLOCK_THRESHOLD))

-----------------------------------------------------------------------------
(* C13: the final label of a request is determined by its final risk alone: *)
(* normal below 0.4, medium_risk from 0.4 and below 0.7, high_risk from     *)
(* 0.7; it is the label recorded in the audit entry; and a request labelled *)
(* high_risk whose final risk is below 0.95 and which RBAC allows is        *)
(* forwarded.                                                               *)
C13_LabelFromFinalRisk ==
    \A i \in ReqIds :
        Decided(i) =>
            LET fr == reqs[i].finalRisk
                lb == reqs[i].finalLabel
            IN  /\ LT(fr, MEDIUM_THRESHOLD) => lb = "normal"
                /\ GE(fr, MEDIUM_THRESHOLD) /\ LT(fr, HIGH_THRESHOLD) => lb = "medium_risk"
                /\ GE(fr, HIGH_THRESHOLD) => lb = "high_risk"
                /\ reqs[i].entry.decision.label = lb
                /\ lb = "high_risk" /\ LT(fr, BLOCK_THRESHOLD) /\ reqs[i].rbacAllowed
                      => Forwarded(i)

\* a request whose rule label is normal got the final label high_risk from the
\* scorer's risk, below the block threshold, and was forwarded and answered 200
C13_Witness ==
    \E i \in ReqIds :
        /\ Forwarded(i) /\ Done(i)
        /\ reqs[i].res.status = 200
        /\ reqs[i].finalLabel = "high_risk"
        /\ reqs[i].ruleDecision.label = "normal"
        /\ LT(reqs[i].finalRisk, BLOCK_THRESHOLD)

-----------------------------------------------------------------------------
(* The increments of the rule table: the set of <<tag, increment>> of the   *)
(* conditions that hold for a context, and the sum of a set of them.        *)
RuleIncrements(ctx) ==
    { p \in { <<"no_user_id", 20>>, <<"admin_path", 50>>, <<"guest_on_admin_path", 30>>,
              <<"honeypot_path", 80>>, <<"rate_limit_exceeded", 40>> } :
        CASE p[1] = "no_user_id"          -> ctx.userId = "anonymous"
          [] p[1] = "admin_path"          -> StartsWith(ctx.path, P_admin)
          [] p[1] = "guest_on_admin_path" -> StartsWith(ctx.path, P_admin) /\ ctx.role = "guest"
          [] p[1] = "honeypot_path"       -> StartsWith(ctx.path, P_honeypot)
          [] p[1] = "rate_limit_exceeded" -> ctx.reqRate > MAX_REQS_PER_MIN }

RECURSIVE SumIncrements(_)
SumIncrements(S) ==
    IF S = {} THEN 0
    ELSE LET p == CHOOSE x \in S : TRUE IN p[2] + SumIncrements(S \ {p})

(* C14: the rule risk of a context is the sum of the increments of exactly  *)
(* the conditions that hold for it (anonymous 0.20, /admin 0.50, /admin as  *)
(* guest 0.30, /honeypot 0.80, rate observation above the cap 0.40), with   *)
(* one reason tag per contributing condition; it is never negative, and as  *)
(* a sum over a set it does not depend on an order of evaluation.           *)
C14_RuleRiskIsSum ==
    \A i \in ReqIds :
        LET T  == RuleIncrements(reqs[i].ctx)
            rd == reqs[i].ruleDecision
        IN  /\ rd.risk = SumIncrements(T)
            /\ rd.risk >= 0
            /\ {rd.reasons[k] : k \in 1..Len(rd.reasons)} = {p[1] : p \in T}
            /\ Len(rd.reasons) = Cardinality(T)
            /\ Decided(i) => reqs[i].entry.ruleRisk = rd.risk

\* an anonymous guest request to /admin/secret from a source above the cap: four
\* conditions hold, rule risk 1.40 with four reason tags, recorded in the entry
C14_Witness ==
    \E i \in ReqIds :
        /\ Decided(i)
        /\ reqs[i].ctx.reqRate > MAX_REQS_PER_MIN
        /\ reqs[i].ctx.userId = "anonymous"
        /\ reqs[i].forwardPath = P_adminSecret
        /\ reqs[i].ruleDecision.risk = 140
        /\ Len(reqs[i].ruleDecision.reasons) = 4
        /\ reqs[i].entry.ruleRisk = 140

-----------------------------------------------------------------------------
(* C15: for every request, rate state and scorer response, each of the      *)
(* three risk contributions (rule risk, ML risk, transport risk) lies in    *)
(* [0,1], in the decision and in every audit entry.                         *)
InUnitInterval(x) == ~x.nan /\ x.v >= 0 /\ x.v <= 100

C15_RisksInUnitInterval ==
    /\ \A i \in ReqIds :
          /\ InUnitInterval(JSNum(reqs[i].ruleDecision.risk))
          /\ InUnitInterval(JSNum(TransportRisk(i)))
          /\ Decided(i) => InUnitInterval(reqs[i].ml.ml_risk)
    /\ \A k \in 1..Len(auditLogs) :
          /\ InUnitInterval(JSNum(auditLogs[k].ruleRisk))
          /\ InUnitInterval(auditLogs[k].mlRisk)
          /\ variant = "tls" => InUnitInterval(JSNum(auditLogs[k].tlsRisk))

-----------------------------------------------------------------------------
(* C16: a request with anonymous identity and role guest to a path starting *)
(* with /admin.  Original statement: its rule risk is 1.00, its label       *)
(* high_risk, its final risk at least 0.95, and it is blocked with reason   *)
(* "Critical risk" in the response body.                                    *)
IsAnonymousGuestAdmin(i) ==
    /\ reqs[i].ctx.userId = "anonymous"
    /\ reqs[i].ctx.role = "guest"
    /\ StartsWith(reqs[i].forwardPath, P_admin)

-----------------------------------------------------------------------------
(* C17: the 403 response of every blocked request carries a reason:         *)
(* "RBAC violation" exactly when RBAC denied the request, whatever its      *)
(* risk, and "Critical risk" exactly when RBAC allowed it and the final     *)
(* risk is at least 0.95; it also carries the final risk and the reason     *)
(* tags recorded for the request.                                           *)
C17_BlockReason ==
    \A i \in ReqIds :
        Blocked403(i) =>
            /\ reqs[i].res.reason = "RBAC violation" <=> ~reqs[i].rbacAllowed
            /\ reqs[i].res.reason = "Critical risk" <=>
                  (reqs[i].rbacAllowed /\ GE(reqs[i].finalRisk, BLOCK_THRESHOLD))
            /\ reqs[i].res.risk = reqs[i].finalRisk
            /\ reqs[i].res.reasons = reqs[i].entry.reasons

-----------------------------------------------------------------------------
(* C18: when the backend call of an allowed request fails at the network    *)
(* level, the caller receives status 500 (or 502), no further backend call  *)
(* is made for the request, and an audit entry of that request is recorded  *)
(* with the error and a synthetic status code.                              *)
CallsFor(i) == {k \in 1..Len(backendCalls) : backendCalls[k] = i}

C18_BackendFailure ==
    [][\A i \in 1..Len(reqs) :
          BackendError(i) =>
              /\ reqs'[i].pc = "done"
              /\ reqs'[i].res.status \in {500, 502}
              /\ backendCalls' = backendCalls
              /\ Cardinality(CallsFor(i)) = 1
              /\ Len(auditLogs') = Len(auditLogs) + 1
              /\ LET e == auditLogs'[Len(auditLogs')]
                 IN  /\ e.statusCode \in {500, 502}
                     /\ e.error # ""
                     /\ e.context = reqs[i].ctx
                     /\ e.decision = reqs[i].entry.decision
                     /\ e.decision.allow]_vars

\* two requests were forwarded; the backend call of the first failed while the
\* second was still waiting: the first was answered 500 after one call and the
\* last audit entry records the error with status code 500
C18_Witness ==
    \E i, j \in ReqIds :
        /\ i # j
        /\ Forwarded(i) /\ Done(i)
        /\ reqs[i].res.status = 500
        /\ reqs[j].pc = "backend"
        /\ Cardinality(CallsFor(i)) = 1
        /\ Len(auditLogs) = 3
        /\ "statusCode" \in DOMAIN auditLogs[3]
        /\ auditLogs[3].statusCode = 500
        /\ auditLogs[3].error # ""
        /\ auditLogs[3].context = reqs[i].ctx

-----------------------------------------------------------------------------
(* C19: when the backend call of a forwarded request returns an HTTP        *)
(* response, the status the gateway returns to the caller is the backend's  *)
(* status, 4xx and 5xx included, with the backend's body: the response is   *)
(* not turned into a gateway block or a backend-unavailable error, and no   *)
(* error entry is recorded.                                                 *)
C19_StatusPassThrough ==
    [][\A i \in 1..Len(reqs) : \A s \in WideBackendStatuses :
          BackendResponse(i, s) =>
              /\ reqs'[i].pc = "done"
              /\ reqs'[i].res.status = s
              /\ reqs'[i].res.data = "upstream"
              /\ "error" \notin DOMAIN reqs'[i].res
              /\ auditLogs' = auditLogs
              /\ backendCalls' = backendCalls]_vars

\* a forwarded request whose backend answered 404 was answered 404 with the
\* backend's body, and the audit log holds its one entry, without an error
C19_Witness ==
    \E i \in ReqIds :
        /\ Forwarded(i) /\ Done(i)
        /\ reqs[i].res.status = 404
        /\ reqs[i].res.data = "upstream"
        /\ Len(auditLogs) = 1
        /\ "error" \notin DOMAIN auditLogs[1]

-----------------------------------------------------------------------------
(* C20: the audit entries of two concurrently processed requests appear in  *)
(* the order in which the requests reached their terminal outcomes: when a  *)
(* request responds while another has not responded yet, the first entry of *)
(* the responding request precedes every entry of the other, which          *)
(* completes later.  Requests are told apart by their contexts.             *)
EntriesOf(log, i) == {k \in 1..Len(log) : log[k].context = reqs[i].ctx}

C20_CompletionOrder ==
    [][\A i, j \in 1..Len(reqs) :
          /\ reqs[i].pc # "done" /\ reqs'[i].pc = "done"
          /\ reqs'[j].pc # "done"
          /\ reqs[i].ctx # reqs[j].ctx
          => \A k \in EntriesOf(auditLogs', j) :
                \E m \in EntriesOf(auditLogs', i) : m < k]_vars

-----------------------------------------------------------------------------
(* C21: the audit log is append-only: at every step of every interleaving   *)
(* of /fw requests and of the health, listing, export and connections       *)
(* endpoints, the log before the step is a prefix of the log after it; no   *)
(* entry is removed, reordered or changed.                                  *)
IsPrefix(s, t) == Len(s) <= Len(t) /\ SubSeq(t, 1, Len(s)) = s

C21_AppendOnly == [][IsPrefix(auditLogs, auditLogs')]_vars

\* the log was listed when it held one entry; two entries were appended since,
\* one of them the error entry of a failed backend call, and the entry listed
\* is still the first of the log
C21_Witness ==
    /\ adminRes.kind = "logs"
    /\ Len(adminRes.body) = 1
    /\ Len(auditLogs) = 3
    /\ adminRes.body[1] = JsonEntry(auditLogs[1])
    /\ \E k \in 2..3 : "statusCode" \in DOMAIN auditLogs[k]

-----------------------------------------------------------------------------
(* C22: the audit entry of a forwarded request and the backend's status *)

\* the backend answered request i with an HTTP response, which was passed on
BackendAnswered(i) == Done(i) /\ Forwarded(i) /\ "data" \in DOMAIN reqs[i].res

\* C22: for every forwarded request whose backend call has ended, an audit
\* entry of that request records the status code the backend returned, or the
\* error when the call failed, so that an answer of 4xx or 5xx is told apart
\* from one of 2xx in the log.
C22_EntryRecordsBackendStatus ==
    \A i \in ReqIds :
        (Done(i) /\ Forwarded(i)) =>
            \E k \in EntriesOf(auditLogs, i) :
                /\ "statusCode" \in DOMAIN auditLogs[k]
                /\ auditLogs[k].statusCode = reqs[i].res.status
                /\ ~BackendAnswered(i) => "error" \in DOMAIN auditLogs[k]

-----------------------------------------------------------------------------
(* C23: the action of an exported entry *)

\* status codes an entry may carry, on both sides of 400
SIEMStatuses == {200, 302, 399, 400, 404, 500}

\* the action the export is to give an entry
ExpectedAction(entry) ==
    IF "statusCode" \in DOMAIN entry
    THEN IF entry.statusCode >= 400 THEN "blocked" ELSE "allowed"
    ELSE IF entry.decision.allow THEN "allowed" ELSE "blocked"

\* C23: in the SIEM export the action of an entry is blocked when the entry
\* has a status code of 400 or more, allowed when it has a status code below
\* 400, and otherwise allowed exactly when its decision.allow is true; the
\* exported status_code is the entry's, so the action never disagrees with it.
C23_ExportAction ==
    /\ adminRes.kind = "json" =>
          \A k \in 1..Len(adminRes.body) :
              LET e == auditLogs[k]
                  x == adminRes.body[k]
              IN  /\ x.action = ExpectedAction(e)
                  /\ x.status_code = IF "statusCode" \in DOMAIN e
                                     THEN JSNum(e.statusCode * 100) ELSE JSNull
                  /\ x.status_code # JSNull =>
                        (x.action = "blocked" <=> x.status_code.v >= 400 * 100)
    /\ \A k \in 1..Len(auditLogs), s \in SIEMStatuses :
          LET e == [statusCode |-> s] @@ auditLogs[k]
          IN  normalizeLogForSIEM(e).action = ExpectedAction(e)

\* an export of three entries: one forwarded, its error entry with status 500
\* (blocked in the export though its allow flag is true), and one denied
C23_Witness ==
    /\ adminRes.kind = "json"
    /\ Len(adminRes.body) = 3
    /\ \E k \in 1..3 : /\ adminRes.body[k].status_code = JSNum(500 * 100)
                       /\ adminRes.body[k].action = "blocked"
                       /\ auditLogs[k].decision.allow
    /\ \E k \in 1..3 : /\ adminRes.body[k].status_code = JSNull
                       /\ adminRes.body[k].action = "allowed"
    /\ \E k \in 1..3 : /\ adminRes.body[k].status_code = JSNull
                       /\ adminRes.body[k].action = "blocked"
                       /\ ~auditLogs[k].decision.allow

-----------------------------------------------------------------------------
(* C24: the CSV export is read back by a CSV parser *)

\* A CSV parser after RFC 4180 over the characters of a text: rows end at
\* "\n", fields at ",", a field that starts with a double quote runs to its
\* closing double quote, and a doubled double quote inside it stands for one.

\* the number of double quotes of t between positions a and b
QuotesIn(t, a, b) == Cardinality({m \in a..b : t[m] = "\""})

\* the double quote at j closes the quoted field opened at i
ClosesAt(t, i, j) ==
    /\ t[j] = "\""
    /\ QuotesIn(t, i + 1, j) % 2 = 1
    /\ (j = Len(t) \/ t[j + 1] # "\"")

\* the first position from i on that holds a separator, or the end of the text
PlainEnd(t, i) ==
    CHOOSE e \in i..(Len(t) + 1) :
        /\ e = Len(t) + 1 \/ t[e] \in {",", "\n"}
        /\ \A m \in i..(e - 1) : t[m] \notin {",", "\n"}

\* the position of the closing double quote of the field opened at i, or the
\* end of the text when the field is not closed
QuotedEnd(t, i) ==
    CHOOSE j \in (i + 1)..(Len(t) + 1) :
        /\ j = Len(t) + 1 \/ ClosesAt(t, i, j)
        /\ \A m \in (i + 1)..(j - 1) : ~ClosesAt(t, i, m)

\* the inside of a quoted field with each doubled double quote made one
RECURSIVE Undouble(_)
Undouble(s) ==
    IF s = <<>> THEN <<>>
    ELSE IF Head(s) = "\"" /\ Len(s) >= 2 /\ s[2] = "\""
         THEN <<"\"">> \o Undouble(SubSeq(s, 3, Len(s)))
         ELSE <<Head(s)>> \o Undouble(Tail(s))

\* the field that starts at i: its text, whether it was quoted, whether it is
\* well formed, and the position of the separator that ends it
ScanField(t, i) ==
    IF i <= Len(t) /\ t[i] = "\""
    THEN LET j     == QuotedEnd(t, i)
             after == j + 1
             ok    == j <= Len(t) /\ (after > Len(t) \/ t[after] \in {",", "\n"})
         IN  [text   |-> Undouble(SubSeq(t, i + 1, j - 1)),
              quoted |-> TRUE,
              ok     |-> ok,
              next   |-> IF j > Len(t) THEN j ELSE PlainEnd(t, after)]
    ELSE LET e == PlainEnd(t, i)
         IN  [text   |-> SubSeq(t, i, e - 1),
              quoted |-> FALSE,
              ok     |-> QuotesIn(t, i, e - 1) = 0,
              next   |-> e]

\* the fields of the row that starts at i, and the position where the row ends
RECURSIVE ParseRow(_, _, _)
ParseRow(t, i, row) ==
    LET f    == ScanField(t, i)
        row2 == Append(row, [text |-> f.text, quoted |-> f.quoted, ok |-> f.ok])
    IN  IF f.next <= Len(t) /\ t[f.next] = ","
        THEN ParseRow(t, f.next + 1, row2)
        ELSE [row |-> row2, next |-> f.next]

RECURSIVE ParseRows(_, _, _)
ParseRows(t, i, rows) ==
    LET r == ParseRow(t, i, <<>>)
    IN  IF r.next > Len(t) THEN Append(rows, r.row)
        ELSE ParseRows(t, r.next + 1, Append(rows, r.row))

ParseCSV(t) == ParseRows(t, 1, <<>>)

\* the text of a number or null before esc: empty for null
ValueText(x) == IF x.t \in {"null", "undefined"} THEN <<>> ELSE NumToChars(x)

\* the sixteen field values of the event of an audit entry, as strings
FieldTexts(entry) ==
    LET e == normalizeLogForSIEM(entry)
    IN  <<IsoChars(e.timestamp), CharsOf(e.event_type), CharsOf(e.source_ip),
          CharsOf(e.http_method), e.url_path, CharsOf(e.user_id),
          CharsOf(e.user_role), CharsOf(e.action), ValueText(e.status_code),
          ValueText(e.risk_score), ValueText(e.rule_risk), ValueText(e.ml_risk),
          CharsOf(e.risk_label), CharsOf(e.ml_label), CharsOf(e.gateway_service),
          CharsOf(e.protected_service)>>

\* the CSV text read back gives the header names, then for each entry of the
\* log, in order, its sixteen field values, each from a quoted field
ReadsBack(text, logs) ==
    LET parsed == ParseCSV(text)
    IN  /\ Len(parsed) = 1 + Len(logs)
        /\ [h \in 1..Len(parsed[1]) |-> parsed[1][h].text]
               = [h \in 1..Len(CSVHeaders) |-> CharsOf(CSVHeaders[h])]
        /\ \A k \in 1..Len(parsed) : \A h \in 1..Len(parsed[k]) : parsed[k][h].ok
        /\ \A k \in 1..Len(logs) :
              /\ [h \in 1..Len(parsed[k + 1]) |-> parsed[k + 1][h].text]
                     = FieldTexts(logs[k])
              /\ \A h \in 1..Len(parsed[k + 1]) : parsed[k + 1][h].quoted
              /\ parsed[k + 1][6].text =
                     CharsOf(HeaderOr(logs[k].context.userId, "anonymous"))

\* the number of "\n" of a text: the entries of the log a CSV export was made of
NewlinesIn(t) == Cardinality({m \in 1..Len(t) : t[m] = "\n"})

\* C24: the CSV export wraps every field of an entry in double quotes, its own
\* double quotes doubled, so that a value with commas and double quotes (a
\* user_id) is one CSV field that a CSV parser reads back as the original
\* string; the export is one header row, then one row per log entry, joined
\* by "\n".  The log only grows (C21), so the entries an export was made of
\* are the first entries of the log of any later state.
C24_CSVRoundTrip ==
    /\ [](adminRes.kind = "csv" =>
             /\ NewlinesIn(adminRes.body) <= Len(auditLogs)
             /\ ReadsBack(adminRes.body,
                          SubSeq(auditLogs, 1, NewlinesIn(adminRes.body))))
    /\ [][(adminRes'.kind = "csv" /\ adminRes' # adminRes)
             => NewlinesIn(adminRes'.body) = Len(auditLogs)]_vars

\* a CSV export of three entries one of which has the user_id a,"b
C24_Witness ==
    /\ adminRes.kind = "csv"
    /\ LET parsed == ParseCSV(adminRes.body)
       IN  /\ Len(parsed) = 4
           /\ \E k \in 2..4 : /\ Len(parsed[k]) = 16
                              /\ parsed[k][6].text = <<"a", ",", "\"", "b">>
                              /\ parsed[k][6].quoted
                              /\ auditLogs[k - 1].context.userId = "a,\"b"

-----------------------------------------------------------------------------
(* C25: the RBAC check and the reference policy *)

\* the path has one of the prefixes of a list, a trailing * dropped
MatchesAny(prefixes, path) ==
    \E k \in 1..Len(prefixes) : StartsWith(path, ReplaceStar(prefixes[k]))

\* the reference policy: an unrecognized role is guest, admin is allowed
\* everything, a deny prefix wins over an allow prefix, no match is a denial
RefPolicy(role, path) ==
    LET r == IF role \in {"guest", "user", "admin"} THEN role ELSE "guest"
    IN  IF r = "admin" THEN TRUE
        ELSE IF MatchesAny(RBAC[r].deny, path) THEN FALSE
        ELSE MatchesAny(RBAC[r].allow, path)

\* the reference verdict of a pair of lists that has no wildcard
RefVerdict(rules, path) ==
    IF MatchesAny(rules.deny, path) THEN FALSE ELSE MatchesAny(rules.allow, path)

\* roles and paths of the bounded set
RBACRoles == {"guest", "user", "admin", "root", "auditor"}
RBACPaths == {P_info, P_profile, P_users, P_admin, P_adminSecret, P_honeypotDb}

\* pairs of lists in which a path can match a deny prefix and an allow prefix
OverlapRules ==
    { [allow |-> <<P_admin>>, deny |-> <<P_adminSecret>>],
      [allow |-> <<P_info, P_adminStar>>, deny |-> <<P_admin>>],
      [allow |-> <<P_profile>>, deny |-> <<>>] }

\* the request's RBAC verdict is the reference policy's
RBACAgrees(i) == reqs[i].rbacAllowed = RefPolicy(reqs[i].ctx.role, reqs[i].forwardPath)

-----------------------------------------------------------------------------
(* C26: the rate observation of a request *)

\* the count of a source, 0 for a source not seen
CountOf(cs, ip) == IF ip \in DOMAIN cs THEN cs[ip].reqCount ELSE 0

\* the rule risk of request r has the rate contribution exactly when its
\* observation exceeds the cap
RateSignal(r) ==
    LET over == r.ctx.reqRate > MAX_REQS_PER_MIN
    IN  /\ Includes(r.ruleDecision.reasons, "rate_limit_exceeded") <=> over
        /\ r.ruleDecision.risk = ContextRules(r.ctx)[1] + (IF over THEN 40 ELSE 0)

\* C26: the rate observation stored in a request's context equals the source's
\* counter right after that request's own observation; the request's rule risk
\* includes the +0.40 rate_limit_exceeded contribution exactly when that
\* observation exceeds the cap of 100; later requests do not change the
\* observation stored in an earlier request's context or audit entry.
C26_RateObservation ==
    [][ /\ Len(reqs') = Len(reqs) + 1 =>
              LET r == reqs'[Len(reqs')]
              IN  /\ r.ctx.reqRate = connectionState'[r.ctx.ip].reqCount
                  /\ r.ctx.reqRate = CountOf(connectionState, r.ctx.ip) + 1
        /\ \A i \in 1..Len(reqs') : RateSignal(reqs'[i])
        /\ \A i \in 1..Len(reqs) : reqs'[i].ctx = reqs[i].ctx
        /\ \A k \in 1..Len(auditLogs) : auditLogs'[k].context = auditLogs[k].context
        /\ \A i \in 1..Len(reqs) :
              (reqs[i].pc = "ml" /\ reqs'[i].pc # "ml") =>
                  /\ Len(auditLogs') = Len(auditLogs) + 1
                  /\ auditLogs'[Len(auditLogs')].context.reqRate = reqs[i].ctx.reqRate
      ]_vars

\* two requests of a source that had sent 99 before: the first observed 100 and
\* has no rate contribution, the second observed 101 and has it; both entries
\* are in the log with these observations and the counter stands at 101
C26_Witness ==
    /\ Len(reqs) = 2
    /\ Len(auditLogs) = 2
    /\ reqs[1].ctx.ip = "10.0.0.1" /\ reqs[2].ctx.ip = "10.0.0.1"
    /\ reqs[1].ctx.reqRate = MAX_REQS_PER_MIN
    /\ reqs[2].ctx.reqRate = MAX_REQS_PER_MIN + 1
    /\ ~Includes(reqs[1].ruleDecision.reasons, "rate_limit_exceeded")
    /\ Includes(reqs[2].ruleDecision.reasons, "rate_limit_exceeded")
    /\ reqs[2].ruleDecision.risk = reqs[1].ruleDecision.risk + 40
    /\ \E k \in 1..2 : auditLogs[k].context.reqRate = MAX_REQS_PER_MIN
    /\ \E k \in 1..2 : auditLogs[k].context.reqRate = MAX_REQS_PER_MIN + 1
    /\ connectionState["10.0.0.1"].reqCount = MAX_REQS_PER_MIN + 1

-----------------------------------------------------------------------------
(* C27: the logged allow flag and what the gateway did *)

\* C27: the allow flag logged in a request's audit entry agrees with what the
\* gateway did with the request, for every rule risk, transport risk, RBAC
\* verdict and scorer response (a non-numeric or out-of-range ml_risk
\* included): decision.allow is true exactly when the request was sent to the
\* backend, and false exactly when it was answered with the 403 block response.
C27_AllowFlagAgrees ==
    \A i \in ReqIds :
        Decided(i) =>
            /\ reqs[i].entry.decision.allow <=> Forwarded(i)
            /\ ~reqs[i].entry.decision.allow <=> Blocked403(i)
            /\ \A k \in EntriesOf(auditLogs, i) :
                  auditLogs[k].decision.allow = reqs[i].entry.decision.allow

-----------------------------------------------------------------------------
(* C28: the scorer can only raise the risk *)

\* the final risk the handler computes for request i when the scorer says 0
FinalRiskAtZero(i) ==
    IF variant = "tls"
    THEN finalRiskOf_TLS(reqs[i].ruleDecision.risk, scoreWithML_TLS(ScorerZero).ml_risk,
                         reqs[i].tls.risk)
    ELSE finalRiskOf(reqs[i].ruleDecision.risk, scoreWithML(ScorerZero).ml_risk)

\* request i is blocked when the scorer returns ml_risk = 0
BlockedAtZero(i) == isBlocked(reqs[i].rbacAllowed, FinalRiskAtZero(i))

\* C28: the scorer can only raise the risk and never unblocks: for every
\* request and every scorer outcome (any response body, or a failure), a
\* request that is blocked when the scorer returns ml_risk = 0 is blocked with
\* that outcome too, and finalRisk >= ruleRisk always holds.
C28_ScorerOnlyRaises ==
    \A i \in ReqIds :
        Decided(i) =>
            /\ BlockedAtZero(i) => Blocked403(i)
            /\ GE(reqs[i].finalRisk, reqs[i].ruleDecision.risk)

====
